---- MODULE Spec2Model ----
(***************************************************************************)
(* Model of src/main.py: skill discovery (AgentSkill, SkillOrchestrator),  *)
(* the tool dispatcher (read_file, execute_script, FUNCTION_MAP), the two  *)
(* backend adapters (GeminiBackend with its retry loop, DeepSeekBackend    *)
(* with its explicit tool loop) and the top-level loop of main().          *)
(*                                                                         *)
(* Strings are sequences of tokens: an f-string is the concatenation of    *)
(* its pieces, and `x in s` is membership of the token x in s.             *)
(***************************************************************************)
EXTENDS Integers, Sequences, FiniteSets, TLC

VARIABLES
  backend,       \* which LLMBackend get_backend() built: "gemini" | "deepseek"
  history,       \* DeepSeekBackend.history
  pending,       \* DeepSeekBackend.send_message: tool calls of msg still to run
  base,          \* Len(history) when the running send_message was called
  chat,          \* GeminiBackend.chat: None, or the texts passed to its send_message
  attempt,       \* GeminiBackend.send_message: provider calls made by this call
  delay,         \* GeminiBackend.send_message: local `delay`
  slept,         \* arguments of the time.sleep calls made by this call
  pc,            \* position inside the backend method that is running
  op,            \* the backend method running, or the last one that ran
  ret,           \* how the last backend method ended: returned value or raised error
  trace,         \* provider responses received by the running call
  arg,           \* argument of the backend method that is running
  skills,        \* SkillOrchestrator.skills, a dict in insertion order
  active_skill,  \* SkillOrchestrator.active_skill
  activations,   \* the last two calls of SkillOrchestrator.activate: name and result
  main_pc,       \* position of main(): "start", "input", "send", "wait", "exited"
  line,          \* main(): the line read last (user_input)
  shown,         \* main(): what it printed for the last turn
  d_pc,          \* _discover_skills: "discovering", "done" or "crashed"
  todo,          \* _discover_skills: entries of root.iterdir() still to visit
  loaded,        \* the AgentSkill objects built so far, with the shape of their manifest
  d_exc          \* the error that ended discovery, if one did

dsVars   == <<history, pending, base>>
gmVars   == <<chat, attempt, delay, slept>>
callVars == <<pc, op, ret, trace, arg>>
orchVars == <<skills, active_skill, activations>>
mainVars == <<main_pc, line, shown>>
discVars == <<d_pc, todo, loaded, d_exc>>
vars == <<backend, history, pending, base, chat, attempt, delay, slept,
          pc, op, ret, trace, arg, skills, active_skill, activations,
          main_pc, line, shown, d_pc, todo, loaded, d_exc>>

None == <<"None">>

(***************************************************************************)
(* Bounds of the model.                                                    *)
(***************************************************************************)
MaxHist  == 5    \* longest DeepSeek history explored
MaxCalls == 2    \* most tool calls in one completion
MaxToolCalls == 2  \* most tool calls in one history
MaxSent  == 4    \* most texts passed to the Gemini chat
MaxManifestLen == 3  \* most lines of a SKILL.md

(***************************************************************************)
(* Small helpers on sequences.                                             *)
(***************************************************************************)
Last(s) == s[Len(s)]

Range(s) == { s[i] : i \in DOMAIN s }

\* `x in s` for a token x and a string s.
Contains(s, x) == \E i \in DOMAIN s : s[i] = x

SeqsUpTo(S, n) == UNION { [1..k -> S] : k \in 0..n }

IsPrefix(a, b) == Len(a) <= Len(b) /\ SubSeq(b, 1, Len(a)) = a

(***************************************************************************)
(* Python dicts are functions from a finite set of keys.                   *)
(***************************************************************************)
EmptyDict == [k \in {} |-> <<>>]

Dict1(k, v) == [x \in {k} |-> v]

\* dict.get(key, default)
DictGet(d, k, default) == IF k \in DOMAIN d THEN d[k] ELSE default

(***************************************************************************)
(* AgentSkill objects.  metadata is a Python value: a dict, or whatever    *)
(* else yaml.safe_load produced.                                           *)
(***************************************************************************)
DefaultBody == <<"This skill provides executable scripts.">>

PyDict(d) == [t |-> "dict", d |-> d]

PyOther(t) == [t |-> t, d |-> EmptyDict]

AgentSkillObj(path, metadata, body) ==
  [path |-> path, metadata |-> metadata, instruction_body |-> body]

\* orchestrator.active_skill when no skill is active (Python's None).
NoSkill == AgentSkillObj("", PyOther("NoneType"), <<>>)

\* self.metadata.get exists only on a dict.
HasGet(skill) == skill.metadata.t = "dict"

\* AgentSkill.name
SkillName(skill) == DictGet(skill.metadata.d, "name", skill.path)

\* AgentSkill.description
SkillDescription(skill) == DictGet(skill.metadata.d, "description", "No description.")

\* The dict SkillOrchestrator.skills: entries in insertion order.
Keys(reg) == { reg[i].key : i \in DOMAIN reg }

Lookup(reg, k) == reg[CHOOSE i \in DOMAIN reg : reg[i].key = k].skill

\* SkillOrchestrator.get_skill_summary
RECURSIVE SummaryLines(_)
SummaryLines(reg) ==
  IF reg = <<>> THEN <<>>
  ELSE <<"- **", reg[1].key, "**: ", SkillDescription(reg[1].skill), "...">>
       \o SummaryLines(Tail(reg))

get_skill_summary(reg) ==
  IF reg = <<>> THEN <<"No local skills detected.">> ELSE SummaryLines(reg)

\* The system prompt main() builds.
system_prompt(reg) ==
  <<"[CORE CAPABILITIES]", "[AVAILABLE SKILLS]">> \o get_skill_summary(reg)
    \o <<"[PROTOCOL]">>

(***************************************************************************)
(* Tool dispatcher.                                                        *)
(***************************************************************************)
FUNCTION_MAP ==
  ( "execute_script" :> "execute_script" ) @@
  ( "read_file"      :> "read_file" ) @@
  ( "read_resource"  :> "read_file" ) @@
  ( "run_code"       :> "execute_script" ) @@
  ( "bash"           :> "execute_script" ) @@
  ( "computer"       :> "execute_script" ) @@
  ( "python"         :> "execute_script" ) @@
  ( "repl"           :> "execute_script" ) @@
  ( "view"           :> "read_file" ) @@
  ( "open"           :> "read_file" )

\* What the environment holds for a path given to read_file.
FileStates == {"missing", "text", "unreadable"}

\* What happens to a script given to execute_script.
ScriptStates == {"missing", "runs", "timeout"}

\* read_file(file_path); the file's presence and readability are inputs.
read_file(file_path, fstate) ==
  CASE fstate = "missing"    -> <<"Error: File not found: ", file_path>>
    [] fstate = "unreadable" -> <<"Read Error: ", "cannot read">>
    [] OTHER                 -> <<"file text">>

\* execute_script(script_name, arguments) under orchestrator.active_skill.
execute_script(script_name, arguments, active, sstate) ==
  IF active = NoSkill THEN <<"Error: No skill active.">>
  ELSE CASE sstate = "missing" ->
              <<"Error: Script '", script_name,
                "' not found. If you want to read a file, use the '",
                "read_file", "' tool instead.">>
         [] sstate = "timeout" -> <<"Command timed out after 60 seconds">>
         [] OTHER -> <<"STDOUT:\n", "output of ", script_name, arguments>>

(***************************************************************************)
(* json.loads on the argument text of a tool call.  A text is a sequence   *)
(* of JSON tokens; only flat objects and the empty list are built here.    *)
(***************************************************************************)
IsObjectText(t) ==
  /\ Len(t) >= 2
  /\ t[1] = "{"
  /\ t[Len(t)] = "}"
  /\ LET m == SubSeq(t, 2, Len(t) - 1)
     IN \/ m = <<>>
        \/ /\ (Len(m) + 1) % 4 = 0
           /\ \A i \in DOMAIN m :
                /\ (i % 4 = 2) => m[i] = ":"
                /\ (i % 4 = 0) => m[i] = ","
                /\ (i % 4 \in {1, 3}) => m[i] \notin {"{", "}", "[", "]", ":", ","}

ObjectOf(t) ==
  LET m == SubSeq(t, 2, Len(t) - 1)
      n == (Len(m) + 1) \div 4
      keys == { m[4 * (i - 1) + 1] : i \in 1..n }
      lastOf(k) == CHOOSE i \in 1..n :
                     /\ m[4 * (i - 1) + 1] = k
                     /\ \A j \in 1..n : m[4 * (j - 1) + 1] = k => j <= i
  IN [k \in keys |-> m[4 * (lastOf(k) - 1) + 3]]

\* [ok, value]: ok is FALSE where json.loads raises JSONDecodeError.
json_loads(t) ==
  IF IsObjectText(t) THEN [ok |-> TRUE, value |-> PyDict(ObjectOf(t))]
  ELSE IF t = <<"[", "]">> THEN [ok |-> TRUE, value |-> PyOther("list")]
  ELSE [ok |-> FALSE, value |-> PyOther("NoneType")]

JSONDecodeError == <<"Expecting value: line 1 column 1 (char 0)">>

\* Does f(**args) bind?  read_file(file_path); execute_script(script_name, arguments="")
Binds(fn, args) ==
  /\ args.t = "dict"
  /\ IF fn = "read_file" THEN DOMAIN args.d = {"file_path"}
     ELSE /\ "script_name" \in DOMAIN args.d
          /\ DOMAIN args.d \subseteq {"script_name", "arguments"}

TypeError(fn, args) ==
  IF args.t = "dict" THEN <<fn, "() got unexpected or missing arguments">>
  ELSE <<fn, "() argument after ** must be a mapping, not ", args.t>>

\* FUNCTION_MAP[name](**args)
CallTool(name, args, active, fstate, sstate) ==
  IF FUNCTION_MAP[name] = "read_file"
  THEN read_file(args.d["file_path"], fstate)
  ELSE execute_script(args.d["script_name"], DictGet(args.d, "arguments", ""),
                      active, sstate)

\* Lines 362-371 of send_message for one tool call tc: [raised, content], with
\* content the tool message's content, or the message of the error raised.
Dispatch(tc, active, fstate, sstate) ==
  LET name == tc.name
      parsed == json_loads(tc.arguments)
  IN IF ~parsed.ok THEN [raised |-> TRUE, content |-> JSONDecodeError]
     ELSE IF name \in DOMAIN FUNCTION_MAP
     THEN IF Binds(FUNCTION_MAP[name], parsed.value)
          THEN [raised |-> FALSE,
                content |-> CallTool(name, parsed.value, active, fstate, sstate)]
          ELSE [raised |-> TRUE,
                content |-> TypeError(FUNCTION_MAP[name], parsed.value)]
     ELSE [raised |-> FALSE,
           content |-> <<"Error: Tool '", name, "' not found. Use '", "read_file",
                         "' or '", "execute_script", "'.">>]

(***************************************************************************)
(* Messages of DeepSeekBackend.history.  Every message carries every       *)
(* field; a field a role does not use is empty.                            *)
(***************************************************************************)
Msg(role, content) ==
  [role |-> role, content |-> content, tool_calls |-> <<>>,
   tool_call_id |-> 0, name |-> ""]

\* The provider's message object: content and tool_calls.
AssistantMsg(content, tool_calls) ==
  [role |-> "assistant", content |-> content, tool_calls |-> tool_calls,
   tool_call_id |-> 0, name |-> ""]

\* ToolMsg with the id of some other call.
ToolMsgOtherId(tc, content) ==
  [role |-> "tool", content |-> content, tool_calls |-> <<>>,
   tool_call_id |-> tc.id + 1, name |-> tc.name]

\* Lines 373-376: the tool message answering tc.
ToolMsg(tc, content) ==
  [role |-> "tool", content |-> content, tool_calls |-> <<>>,
   tool_call_id |-> tc.id, name |-> tc.name]

Returned(v) == [kind |-> "return", val |-> v]

Raised(e) == [kind |-> "raise", val |-> e]

NoResult == [kind |-> "none", val |-> <<>>]

(***************************************************************************)
(* Inputs of the model: what the user types, what the provider answers.    *)
(***************************************************************************)
FinalTexts == { <<"Here is the answer.">>, <<"Done.">> }

\* Argument texts the provider sends: truncated JSON, and the arguments of
\* each canonical tool.
BadJson == <<"{">>

FileArgs == <<"{", "file_path", ":", "notes.txt", "}">>

ScriptArgs == <<"{", "script_name", ":", "run.py", ",", "arguments", ":", "--fast", "}">>

\* Tool calls the provider asks for, as <<name, arguments>>: a canonical name
\* and an alias with arguments that fit, an alias with arguments that do not,
\* and a name FUNCTION_MAP does not know, with and without parsable arguments.
ToolCallShapes ==
  { <<"read_file", FileArgs>>,
    <<"bash", ScriptArgs>>,
    <<"bash", FileArgs>>,
    <<"frobnicate", FileArgs>>,
    <<"frobnicate", BadJson>> }

\* Messages of provider failures (str(e)).
ProviderErrors ==
  { <<"429", "Too Many Requests">>,
    <<"RESOURCE_EXHAUSTED">>,
    <<"401", "Unauthorized">> }

\* Ids the provider gives the tool calls of one completion: fresh in the history.
CallsIn(h) == UNION { { h[i].tool_calls[j].id : j \in DOMAIN h[i].tool_calls } : i \in DOMAIN h }

FreshId(h, j) == Cardinality(CallsIn(h)) + j

ToolCallsOf(h, shapes) ==
  [j \in DOMAIN shapes |->
     [id |-> FreshId(h, j), name |-> shapes[j][1], arguments |-> shapes[j][2]]]

(***************************************************************************)
(* DeepSeekBackend                                                         *)
(***************************************************************************)
\* ApiError letting the error out of send_message.
ApiErrorRaised(e) == Raised(<<"DeepSeek API Error: ">> \o e)

\* Line 381: except Exception as e: return f"DeepSeek API Error: {e}"
ApiError(e) == Returned(<<"DeepSeek API Error: ">> \o e)

\* Line 345
DeepSeek_start_chat(prompt) ==
  /\ history' = <<Msg("system", prompt)>>
  /\ UNCHANGED <<pending, base>>

\* DeepSeek_inject_system_message writing over the last message.
DeepSeek_inject_over_last(content) ==
  /\ Len(history) < MaxHist
  /\ history' = IF history = <<>> THEN <<Msg("system", content)>>
                ELSE [history EXCEPT ![Len(history)] = Msg("system", content)]
  /\ UNCHANGED <<pending, base>>

\* Line 348
DeepSeek_inject_system_message(content) ==
  /\ Len(history) < MaxHist
  /\ history' = Append(history, Msg("system", content))
  /\ UNCHANGED <<pending, base>>

\* Line 351: the user message is appended before the first request.
DeepSeek_send_message(user_input) ==
  /\ Len(history) < MaxHist
  /\ history' = Append(history, Msg("user", user_input))
  /\ base' = Len(history)
  /\ pending' = <<>>

\* HistoryAfterCompletion without line 379.
HistoryWithoutFinal(h, msg) == IF msg.tool_calls = <<>> THEN h ELSE Append(h, msg)

\* Lines 360 and 379: self.history.append(msg), in either branch.
HistoryAfterCompletion(h, msg) == Append(h, msg)

\* Lines 353-360, 378-381: one request for a completion and what follows it,
\* up to the first tool call.

DeepSeek_Completion ==
  /\ backend = "deepseek"
  /\ pc = "AwaitingCompletion"
  /\ \/ \E e \in ProviderErrors :
          /\ ret' = ApiError(e)
          /\ pc' = "Idle"
          /\ trace' = Append(trace, [k |-> "error", n |-> 0, v |-> e])
          /\ UNCHANGED <<history, pending>>
     \/ /\ Len(history) < MaxHist
        /\ \E shapes \in SeqsUpTo(ToolCallShapes, MaxCalls) \ {<<>>} :
             /\ Cardinality(CallsIn(history)) + Len(shapes) <= MaxToolCalls
             /\ LET msg == AssistantMsg(<<>>, ToolCallsOf(history, shapes))
                IN /\ history' = HistoryAfterCompletion(history, msg)
                   /\ pending' = msg.tool_calls
                   /\ pc' = "ToolExecuting"
                   /\ trace' = Append(trace, [k |-> "calls", n |-> Len(shapes), v |-> <<>>])
                   /\ UNCHANGED ret
     \/ /\ Len(history) < MaxHist
        /\ \E text \in FinalTexts :
             LET msg == AssistantMsg(text, <<>>)
             IN /\ history' = HistoryAfterCompletion(history, msg)
                /\ ret' = Returned(msg.content)
                /\ pc' = "Idle"
                /\ trace' = Append(trace, [k |-> "final", n |-> 0, v |-> text])
                /\ UNCHANGED pending
  /\ UNCHANGED <<backend, base, op, arg>>
  /\ UNCHANGED gmVars
  /\ UNCHANGED <<orchVars, mainVars, discVars>>

\* Lines 361-377: one turn of `for tc in msg.tool_calls`, and `continue` after
\* the last one.
DeepSeek_ToolStep ==
  /\ backend = "deepseek"
  /\ pc = "ToolExecuting"
  /\ pending # <<>>
  /\ \E fstate \in FileStates, sstate \in ScriptStates :
       LET tc == Head(pending)
           res == Dispatch(tc, active_skill, fstate, sstate)
       IN IF res.raised
          THEN /\ ret' = ApiError(res.content)
               /\ pc' = "Idle"
               /\ UNCHANGED <<history, pending>>
          ELSE /\ Len(history) < MaxHist
               /\ history' = Append(history, ToolMsg(tc, res.content))
               /\ pending' = Tail(pending)
               /\ pc' = IF Tail(pending) = <<>> THEN "AwaitingCompletion"
                        ELSE "ToolExecuting"
               /\ UNCHANGED ret
  /\ UNCHANGED <<backend, base, op, arg, trace>>
  /\ UNCHANGED gmVars
  /\ UNCHANGED <<orchVars, mainVars, discVars>>

(***************************************************************************)
(* GeminiBackend                                                           *)
(***************************************************************************)
max_retries == 3

InitialDelay == 5

TimeoutSentinel == <<"Error: API Timeout.">>

\* IsRateLimit taking every failure for a rate limit.
IsRateLimitAlways(e) == Len(e) >= 0

\* Line 323: "429" in str(e) or "RESOURCE_EXHAUSTED" in str(e)
IsRateLimit(e) == Contains(e, "429") \/ Contains(e, "RESOURCE_EXHAUSTED")

\* NextDelay without the doubling.
NextDelaySame(d) == d

\* Line 326: delay *= 2
NextDelay(d) == d * 2

\* Exhausted one attempt late.
ExhaustedLate(n) == n > max_retries

\* Line 319: range(max_retries) is used up after this many attempts.
Exhausted(n) == n >= max_retries

\* GeminiBackend.chat: None until start_chat, then a chat that has been sent texts.
NoneChat == [open |-> FALSE, sent |-> <<>>]

ChatWith(sent) == [open |-> TRUE, sent |-> sent]

NoChat == <<"'NoneType' object has no attribute 'send_message'">>

\* Line 314
Gemini_start_chat(prompt) ==
  /\ chat' = ChatWith(<<>>)
  /\ UNCHANGED <<attempt, delay, slept>>

\* Lines 317-318
Gemini_send_message(user_input) ==
  /\ attempt' = 0
  /\ delay' = InitialDelay
  /\ slept' = <<>>
  /\ UNCHANGED chat

\* Lines 320-327 up to the sleep: one self.chat.send_message(user_input).
Gemini_Attempt ==
  /\ backend = "gemini"
  /\ pc = "AwaitingResponse"
  /\ attempt' = attempt + 1
  /\ IF chat = NoneChat
     THEN /\ ret' = Raised(NoChat)
          /\ pc' = "Idle"
          /\ trace' = Append(trace, [k |-> "error", n |-> 0, v |-> NoChat])
          /\ UNCHANGED chat
     ELSE /\ Len(chat.sent) < MaxSent
          /\ chat' = ChatWith(Append(chat.sent, arg))
          /\ \/ \E text \in FinalTexts :
                  /\ ret' = Returned(text)
                  /\ pc' = "Idle"
                  /\ trace' = Append(trace, [k |-> "final", n |-> 0, v |-> text])
             \/ \E e \in ProviderErrors :
                  /\ trace' = Append(trace, [k |-> "error", n |-> 0, v |-> e])
                  /\ IF IsRateLimit(e)
                     THEN /\ pc' = "RateLimited"
                          /\ UNCHANGED ret
                     ELSE /\ ret' = Raised(e)
                          /\ pc' = "Idle"
  /\ UNCHANGED <<backend, delay, slept, op, arg>>
  /\ UNCHANGED dsVars
  /\ UNCHANGED <<orchVars, mainVars, discVars>>

\* Lines 325-326, and line 328 once the loop is used up.
Gemini_Sleep ==
  /\ backend = "gemini"
  /\ pc = "RateLimited"
  /\ slept' = Append(slept, delay)
  /\ delay' = NextDelay(delay)
  /\ IF Exhausted(attempt)
     THEN /\ ret' = Returned(TimeoutSentinel)
          /\ pc' = "Idle"
     ELSE /\ pc' = "AwaitingResponse"
          /\ UNCHANGED ret
  /\ UNCHANGED <<backend, chat, attempt, op, arg, trace>>
  /\ UNCHANGED dsVars
  /\ UNCHANGED <<orchVars, mainVars, discVars>>

\* Swallowed letting the error out.
NotSwallowed(e) == Raised(e)

\* Line 332: `except: pass`, after which the method returns None.
Swallowed(e) == Returned(None)

\* Lines 331-332: one chat.send_message; whatever it raises is dropped.
Gemini_Inject ==
  /\ backend = "gemini"
  /\ pc = "Injecting"
  /\ \/ /\ chat = NoneChat
        /\ UNCHANGED chat
        /\ trace' = Append(trace, [k |-> "error", n |-> 0, v |-> NoChat])
        /\ ret' = Swallowed(NoChat)
     \/ /\ chat # NoneChat
        /\ Len(chat.sent) < MaxSent
        /\ chat' = ChatWith(Append(chat.sent, <<"[SYSTEM UPDATE] ">> \o arg))
        /\ \/ /\ trace' = Append(trace, [k |-> "final", n |-> 0, v |-> <<>>])
              /\ ret' = Returned(None)
           \/ \E e \in ProviderErrors :
                /\ trace' = Append(trace, [k |-> "error", n |-> 0, v |-> e])
                /\ ret' = Swallowed(e)
  /\ pc' = "Idle"
  /\ UNCHANGED <<backend, attempt, delay, slept, op, arg>>
  /\ UNCHANGED dsVars
  /\ UNCHANGED <<orchVars, mainVars, discVars>>

(***************************************************************************)
(* The LLMBackend interface: entering a method of whichever backend runs.  *)
(***************************************************************************)
start_chat(prompt) ==
  /\ pc = "Idle"
  /\ IF backend = "deepseek"
     THEN DeepSeek_start_chat(prompt) /\ UNCHANGED gmVars
     ELSE Gemini_start_chat(prompt) /\ UNCHANGED dsVars
  /\ op' = "start_chat"
  /\ arg' = prompt
  /\ ret' = Returned(None)
  /\ trace' = <<>>
  /\ UNCHANGED pc

inject_system_message(content) ==
  /\ pc = "Idle"
  /\ op' = "inject_system_message"
  /\ arg' = content
  /\ trace' = <<>>
  /\ IF backend = "deepseek"
     THEN /\ DeepSeek_inject_system_message(content)
          /\ ret' = Returned(None)
          /\ UNCHANGED pc
          /\ UNCHANGED gmVars
     ELSE /\ pc' = "Injecting"
          /\ ret' = NoResult
          /\ UNCHANGED gmVars
          /\ UNCHANGED dsVars

send_message(user_input) ==
  /\ pc = "Idle"
  /\ op' = "send_message"
  /\ arg' = user_input
  /\ trace' = <<>>
  /\ ret' = NoResult
  /\ IF backend = "deepseek"
     THEN /\ DeepSeek_send_message(user_input)
          /\ pc' = "AwaitingCompletion"
          /\ UNCHANGED gmVars
     ELSE /\ Gemini_send_message(user_input)
          /\ pc' = "AwaitingResponse"
          /\ UNCHANGED dsVars

(***************************************************************************)
(* SkillOrchestrator.activate                                              *)
(***************************************************************************)
\* ActiveAfter dropping the active skill on a name the registry does not hold.
ActiveAfterCleared(reg, active, skill_name) ==
  IF skill_name \in Keys(reg) THEN Lookup(reg, skill_name) ELSE NoSkill

\* Lines 126-129: the new active_skill.
ActiveAfter(reg, active, skill_name) ==
  IF skill_name \in Keys(reg) THEN Lookup(reg, skill_name) ELSE active

(***************************************************************************)
(* A backend driven by any sequence of calls, under an orchestrator that   *)
(* has or has not activated a skill.                                       *)
(***************************************************************************)
\* What the driver passes to send_message.
UserTexts == { <<"hello">> }

InjectTexts == { <<"[SYSTEM: ACTIVATE SKILL '", "alpha", "']">> }

\* The registry discovery leaves for two script-only directories.
Registries ==
  { << [key |-> "alpha",
        skill |-> AgentSkillObj("alpha", PyDict(Dict1("name", "alpha")), DefaultBody)],
       [key |-> "beta",
        skill |-> AgentSkillObj("beta", PyDict(Dict1("name", "beta")), DefaultBody)] >> }

NothingShown == [style |-> "none", text |-> <<>>]

\* A backend that was just constructed.
InitBackend ==
  /\ backend \in {"gemini", "deepseek"}
  /\ history = <<>>
  /\ pending = <<>>
  /\ base = 0
  /\ chat = NoneChat
  /\ attempt = 0
  /\ delay = 0
  /\ slept = <<>>
  /\ pc = "Idle"
  /\ op = "none"
  /\ ret = NoResult
  /\ trace = <<>>
  /\ arg = <<>>

\* main() has not started.
InitMainIdle ==
  /\ main_pc = "start"
  /\ line = <<>>
  /\ shown = NothingShown

\* Discovery is over.
InitDiscovered ==
  /\ d_pc = "done"
  /\ todo = <<>>
  /\ loaded = <<>>
  /\ d_exc = ""

Init ==
  /\ InitBackend
  /\ skills \in Registries
  /\ active_skill \in {NoSkill} \cup { skills[i].skill : i \in DOMAIN skills }
  /\ activations = <<>>
  /\ InitMainIdle
  /\ InitDiscovered

CallStartChat ==
  /\ start_chat(system_prompt(skills))
  /\ UNCHANGED <<backend, orchVars, mainVars, discVars>>

CallInject ==
  /\ \E content \in InjectTexts : inject_system_message(content)
  /\ UNCHANGED <<backend, orchVars, mainVars, discVars>>

CallSend ==
  /\ \E user_input \in UserTexts : send_message(user_input)
  /\ UNCHANGED <<backend, orchVars, mainVars, discVars>>

Next ==
  \/ CallStartChat
  \/ CallInject
  \/ CallSend
  \/ DeepSeek_Completion
  \/ DeepSeek_ToolStep
  \/ Gemini_Attempt
  \/ Gemini_Sleep
  \/ Gemini_Inject

Spec == Init /\ [][Next]_vars

(***************************************************************************)
(* Properties of the explicit tool loop (DeepSeekBackend).                 *)
(***************************************************************************)
\* The messages the running (or last) send_message appended.
Appended == SubSeq(history, base + 1, Len(history))

Roles(h) == [i \in DOMAIN h |-> h[i].role]

Ids(msg) == { msg.tool_calls[j].id : j \in DOMAIN msg.tool_calls }

\* A send_message has returned after exactly these two completions: one with
\* two tool calls, then one with none.
TwoCallsThenFinal ==
  /\ backend = "deepseek"
  /\ op = "send_message"
  /\ pc = "Idle"
  /\ Len(trace) = 2
  /\ trace[1].k = "calls"
  /\ trace[1].n = 2
  /\ trace[2].k = "final"

\* C1: a send_message whose first completion carried two tool calls and whose
\* second carried none appended exactly user, assistant (2 calls), tool, tool,
\* assistant (final), and returned the content of that final message.
C1_TwoCallsThenFinalHistory ==
  TwoCallsThenFinal =>
    /\ Roles(Appended) = <<"user", "assistant", "tool", "tool", "assistant">>
    /\ Appended[1].content = arg
    /\ Len(Appended[2].tool_calls) = 2
    /\ Appended[5].tool_calls = <<>>
    /\ Appended[5].content = trace[2].v
    /\ ret = Returned(Appended[5].content)

C1_Witness == TwoCallsThenFinal

\* The assistant message a tool message at position i answers: the nearest
\* earlier message that is not a tool message.
AnsweredBy(h, i) ==
  CHOOSE j \in 0..(i - 1) :
    /\ \A k \in (j + 1)..(i - 1) : h[k].role = "tool"
    /\ j > 0 => h[j].role # "tool"

\* C2: every tool message follows, with only tool messages of the same batch
\* in between, the assistant tool-call message it answers, and carries the id
\* of one of that message's tool calls.
C2_ToolMessagesFollowTheirCall ==
  \A i \in DOMAIN history :
    history[i].role = "tool" =>
      LET j == AnsweredBy(history, i)
      IN /\ j > 0
         /\ history[j].role = "assistant"
         /\ history[i].tool_call_id \in Ids(history[j])
         /\ \A k \in (j + 1)..i : history[k].tool_call_id \in Ids(history[j])

\* A second tool message of a batch, in a history that also holds an injected
\* system message.
C2_Witness ==
  /\ \E i \in DOMAIN history :
       i > 1 /\ history[i].role = "tool" /\ history[i - 1].role = "tool"
  /\ \E i \in DOMAIN history : i > 1 /\ history[i].role = "system"

\* C3: every tool call the loop dispatches ends in a tool message appended for
\* that call; the step never ends the call instead.
C3_DispatchNeverRaises ==
  [][ (backend = "deepseek" /\ pc = "ToolExecuting") =>
        /\ history' = Append(history, Last(history'))
        /\ Last(history').role = "tool"
        /\ Last(history').tool_call_id = Head(pending).id
        /\ pc' # "Idle" ]_vars

\* C10: the aliases resolve as execute_script and read_file do, and a tool call
\* with any other name yields a tool message naming both canonical tools.
C10_AliasesAndUnknownNames ==
  [][ /\ \A n \in {"run_code", "bash", "computer", "python", "repl"} :
           FUNCTION_MAP[n] = FUNCTION_MAP["execute_script"]
      /\ \A n \in {"read_resource", "view", "open"} :
           FUNCTION_MAP[n] = FUNCTION_MAP["read_file"]
      /\ (backend = "deepseek" /\ pc = "ToolExecuting"
            /\ Head(pending).name \notin DOMAIN FUNCTION_MAP) =>
           /\ history' = Append(history, Last(history'))
           /\ Last(history').role = "tool"
           /\ Contains(Last(history').content, "read_file")
           /\ Contains(Last(history').content, "execute_script") ]_vars

\* C14: send_message moves Idle -> AwaitingCompletion -> (ToolExecuting ->
\* AwaitingCompletion)* -> Idle: a response with tool calls leads to
\* ToolExecuting and, its calls run, to another request; a response without
\* tool calls, or a failed request, leads to Idle.
C14_ToolLoopStates ==
  [][ backend = "deepseek" =>
        /\ (pc = "Idle" /\ pc' # pc) => pc' = "AwaitingCompletion"
        /\ (pc = "AwaitingCompletion" /\ pc' # pc) =>
             /\ pc' \in {"ToolExecuting", "Idle"}
             /\ pc' = "ToolExecuting" <=> Last(trace').k = "calls"
        /\ pc = "ToolExecuting" =>
             /\ pc' \in {"ToolExecuting", "AwaitingCompletion"}
             /\ pc' = "AwaitingCompletion" <=> pending' = <<>>
    ]_vars

\* C15: every step other than a start_chat, the steps of inject_system_message
\* and of send_message and those that end a call on an error among them,
\* leaves the history it found as a prefix of the history it leaves.
C15_HistoryAppendOnly ==
  [][ (backend = "deepseek" /\ (pc # "Idle" \/ op' # "start_chat")) =>
        IsPrefix(history, history') ]_vars

\* After a start_chat and an injection, a send_message ended on a failed
\* request.
C15_Witness ==
  /\ backend = "deepseek"
  /\ op = "send_message"
  /\ pc = "Idle"
  /\ trace # <<>>
  /\ Last(trace).k = "error"
  /\ Len(history) >= 3
  /\ history[1].role = "system"
  /\ history[2].role = "system"
  /\ Last(history).role = "user"

\* Tool call tc of the message at position i has a tool message after it.
Answered(h, i, tc) ==
  \E j \in (i + 1)..Len(h) : h[j].role = "tool" /\ h[j].tool_call_id = tc.id

\* C18: whenever no send_message is running, every tool call of every
\* assistant message of the history has a tool message with its id, so a user
\* or assistant message is only ever appended to a history without unanswered
\* tool calls.
C18_NoUnansweredToolCalls ==
  (backend = "deepseek" /\ pc = "Idle") =>
    \A i \in DOMAIN history :
      \A c \in DOMAIN history[i].tool_calls :
        Answered(history, i, history[i].tool_calls[c])

\* A send_message has ended on a failed request to the provider.
RequestFailed ==
  /\ backend = "deepseek"
  /\ op = "send_message"
  /\ pc = "Idle"
  /\ trace # <<>>
  /\ Last(trace).k = "error"

\* C20: a send_message that ends on a failed request returns a text starting
\* "DeepSeek API Error:", and leaves in the history what the call appended up
\* to then, the user message first and no final assistant message last; the
\* failing step itself writes nothing to the history, and the next
\* send_message appends its user message right after.
C20_FailedRequestNotRolledBack ==
  [][ /\ (backend = "deepseek" /\ pc = "AwaitingCompletion"
            /\ trace' # trace /\ Last(trace').k = "error") =>
           /\ history' = history
           /\ pc' = "Idle"
           /\ ret' = Returned(<<"DeepSeek API Error: ">> \o Last(trace').v)
      /\ RequestFailed =>
           /\ ret.kind = "return"
           /\ Head(ret.val) = "DeepSeek API Error: "
           /\ Len(history) > base
           /\ history[base + 1] = Msg("user", arg)
           /\ Last(history).role \in {"user", "tool"}
           /\ op' = "send_message" =>
                history' = Append(history, Msg("user", arg'))
    ]_vars

\* After an iteration with a tool call the request failed, and the next
\* send_message appended its user message right after the tool message.
C20_Witness ==
  /\ backend = "deepseek"
  /\ op = "send_message"
  /\ base >= 3
  /\ history[base].role = "tool"
  /\ history[base - 1].role = "assistant"
  /\ history[base - 2].role = "user"
  /\ history[base + 1].role = "user"

(***************************************************************************)
(* Properties of the retry loop (GeminiBackend.send_message).              *)
(***************************************************************************)
RECURSIVE SumSeq(_)
SumSeq(s) == IF s = <<>> THEN 0 ELSE Head(s) + SumSeq(Tail(s))

\* The rate-limit signal of the provider: status 429, or RESOURCE_EXHAUSTED.
RateLimitSignal(e) == \E i \in DOMAIN e : e[i] \in {"429", "RESOURCE_EXHAUSTED"}

RateLimitedAt(i) == trace[i].k = "error" /\ RateLimitSignal(trace[i].v)

GeminiSend == backend = "gemini" /\ op = "send_message"

\* A send_message has ended after two rate-limit failures and a success.
TwoRateLimitsThenSuccess ==
  /\ GeminiSend
  /\ pc = "Idle"
  /\ Len(trace) = 3
  /\ RateLimitedAt(1)
  /\ RateLimitedAt(2)
  /\ trace[3].k = "final"

\* C4: two rate-limit failures and then a success make exactly three attempts
\* and two sleeps, of 5 then 10, and return the value of the third attempt.
C4_TwoBackoffsThenValue ==
  TwoRateLimitsThenSuccess =>
    /\ attempt = 3
    /\ slept = <<5, 10>>
    /\ ret = Returned(trace[3].v)

C4_Witness == TwoRateLimitsThenSuccess

\* The first three attempts of a send_message all failed with a rate limit.
ThreeRateLimits ==
  /\ GeminiSend
  /\ Len(trace) >= 3
  /\ \A i \in 1..3 : RateLimitedAt(i)

\* C5: after three rate-limit failures there is no fourth attempt, the call
\* returns the timeout sentinel instead of raising, each sleep is double the
\* one before, and the sleeps add up to at most 35.
C5_ExhaustionReturnsSentinel ==
  ThreeRateLimits =>
    /\ Len(trace) = 3
    /\ attempt = 3
    /\ pc \in {"RateLimited", "Idle"}
    /\ \A i \in 2..Len(slept) : slept[i] = 2 * slept[i - 1]
    /\ SumSeq(slept) <= 35
    /\ pc = "Idle" => ret = Returned(TimeoutSentinel)

C5_Witness == ThreeRateLimits /\ pc = "Idle" /\ Len(slept) = 3

\* The last attempt of a send_message failed with something else than a rate limit.
FatalFailure ==
  /\ GeminiSend
  /\ trace # <<>>
  /\ Last(trace).k = "error"
  /\ ~RateLimitSignal(Last(trace).v)

\* C6: a failure that is no rate-limit signal, on whichever attempt, ends the
\* call at once by raising that failure: no sleep after it, no further attempt.
C6_FatalFailurePropagates ==
  FatalFailure =>
    /\ pc = "Idle"
    /\ ret = Raised(Last(trace).v)
    /\ attempt = Len(trace)
    /\ Len(slept) = Len(trace) - 1

\* A fatal failure on the third attempt.
C6_Witness == FatalFailure /\ Len(trace) = 3

(***************************************************************************)
(* main(): the top-level loop and its router.                              *)
(***************************************************************************)
\* str.lower() and str.upper() on the tokens the inputs use.
LowerTok(t) ==
  CASE t = "ALPHA" -> "alpha"
    [] t = "BETA"  -> "beta"
    [] t = "EXIT"  -> "exit"
    [] t = "Q"     -> "q"
    [] OTHER       -> t

UpperTok(t) ==
  CASE t = "alpha" -> "ALPHA"
    [] t = "beta"  -> "BETA"
    [] t = "exit"  -> "EXIT"
    [] t = "q"     -> "Q"
    [] OTHER       -> t

Lower(text) == [i \in DOMAIN text |-> LowerTok(text[i])]

\* What the user types.
Inputs == { <<"hello">>, <<"use", "BETA">>, <<"beta", "ALPHA">>, <<"EXIT">> }

\* Line 425: user_input.lower() in ["q", "exit"]
IsExit(text) == Lower(text) \in { <<"q">>, <<"exit">> }

\* RouterOpen whatever skill is active.
RouterAlwaysOpen(active) == active = active

\* Line 428: `not orchestrator.active_skill`; an AgentSkill object is truthy.
RouterOpen(active) == active = NoSkill

\* RouterMatch taking the last name of the registry that occurs in the input.
RouterMatchLast(reg, text) ==
  LET hits == { i \in DOMAIN reg : Contains(Lower(text), reg[i].key) }
  IN IF hits = {} THEN 0 ELSE CHOOSE i \in hits : \A j \in hits : i >= j

\* Lines 429-430: the position in the registry of the first name that occurs
\* in the lower-cased input, 0 if none does.
RouterMatch(reg, text) ==
  LET hits == { i \in DOMAIN reg : Contains(Lower(text), reg[i].key) }
  IN IF hits = {} THEN 0 ELSE CHOOSE i \in hits : \A j \in hits : i <= j

\* AgentSkill.get_full_context: title, instructions and the file map; the
\* knowledge and script sections depend on files that are not modelled.
get_full_context(skill) ==
  <<"# Active Skill Protocol: ", UpperTok(SkillName(skill)),
    "## 1. Primary Instructions (SOP)">> \o skill.instruction_body
    \o <<"## 3. Project Structure (Map)">>

LastTwo(s) == IF Len(s) > 2 THEN SubSeq(s, Len(s) - 1, Len(s)) ELSE s

\* Lines 126-129: what activate returns.
ActivateResult(reg, skill_name) ==
  IF skill_name \in Keys(reg) THEN get_full_context(Lookup(reg, skill_name))
  ELSE <<>>

\* SkillOrchestrator.activate(skill_name)
activate(skill_name) ==
  /\ active_skill' = ActiveAfter(skills, active_skill, skill_name)
  /\ activations' = LastTwo(Append(activations,
                                   [name |-> skill_name,
                                    result |-> ActivateResult(skills, skill_name)]))
  /\ UNCHANGED skills

\* Lines 432-436
inject_msg(name, context) ==
  <<"[SYSTEM: ACTIVATE SKILL '", name, "']",
    "[REMINDER] Use read_file to inspect documents if no specific script exists.">>
    \o context

\* AfterTurn without the except clauses of lines 445-448.
AfterTurnUncaught(r) == IF r.kind = "raise" THEN "crashed" ELSE "input"

\* Lines 441-448: whatever send_message returned or raised, the loop goes on.
AfterTurn(r) == "input"

\* str(e) of the KeyboardInterrupt an interrupt raises; it is a BaseException,
\* not an Exception.
KeyboardInterrupt == <<"KeyboardInterrupt">>

\* Lines 444-448: what the loop prints for the turn.
Report(r) ==
  IF r.kind = "raise" /\ r.val = KeyboardInterrupt
  THEN [style |-> "warning", text |-> <<"Interrupted">>]
  ELSE IF r.kind = "raise" THEN [style |-> "error", text |-> <<"Error: ">> \o r.val]
  ELSE [style |-> "markdown", text |-> r.val]

MainInit ==
  /\ InitBackend
  /\ skills \in Registries
  /\ active_skill = NoSkill
  /\ activations = <<>>
  /\ InitMainIdle
  /\ InitDiscovered

\* Line 420
MainStart ==
  /\ main_pc = "start"
  /\ start_chat(system_prompt(skills))
  /\ main_pc' = "input"
  /\ UNCHANGED <<backend, orchVars, line, shown, discVars>>

\* Lines 424-439: read a line, leave on an exit word, else run the router.
MainInput ==
  /\ main_pc = "input"
  /\ pc = "Idle"
  /\ \E text \in Inputs :
       /\ line' = text
       /\ IF IsExit(text)
          THEN /\ main_pc' = "exited"
               /\ UNCHANGED <<orchVars, dsVars, gmVars, callVars>>
          ELSE /\ main_pc' = "send"
               /\ IF RouterOpen(active_skill) /\ RouterMatch(skills, text) # 0
                  THEN LET name == skills[RouterMatch(skills, text)].key
                           context == ActivateResult(skills, name)
                       IN /\ activate(name)
                          /\ inject_system_message(inject_msg(name, context))
                  ELSE UNCHANGED <<orchVars, dsVars, gmVars, callVars>>
  /\ UNCHANGED <<backend, shown, discVars>>

\* Line 443
MainSend ==
  /\ main_pc = "send"
  /\ send_message(line)
  /\ main_pc' = "wait"
  /\ UNCHANGED <<backend, orchVars, line, shown, discVars>>

\* Lines 444-448: print the answer, or the error that came out of send_message.
MainReport ==
  /\ main_pc = "wait"
  /\ pc = "Idle"
  /\ shown' = Report(ret)
  /\ main_pc' = AfterTurn(ret)
  /\ UNCHANGED <<backend, orchVars, line, discVars>>
  /\ UNCHANGED <<dsVars, gmVars, callVars>>

MainNext ==
  \/ MainStart
  \/ MainInput
  \/ MainSend
  \/ MainReport
  \/ DeepSeek_Completion
  \/ DeepSeek_ToolStep
  \/ Gemini_Attempt
  \/ Gemini_Sleep
  \/ Gemini_Inject

SpecMain == MainInit /\ [][MainNext]_vars

(***************************************************************************)
(* Properties of the top-level loop.                                       *)
(***************************************************************************)
\* The last send_message ended on a provider failure that is no rate-limit signal.
FatalEnded ==
  /\ op = "send_message"
  /\ pc = "Idle"
  /\ trace # <<>>
  /\ Last(trace).k = "error"
  /\ ~RateLimitSignal(Last(trace).v)

\* C7 as stated: in either variant the fatal provider error comes out of
\* send_message as a raised error, is reported by the loop, and the loop goes on.
C7_FatalErrorsPropagate ==
  FatalEnded =>
    /\ ret = Raised(Last(trace).v)
    /\ main_pc \in {"wait", "input", "send", "exited"}
    /\ main_pc # "wait" => shown = [style |-> "error", text |-> <<"Error: ">> \o Last(trace).v]

\* C7, amended: the Gemini variant raises the error and the loop prints it as
\* an error; the DeepSeek variant returns it as a "DeepSeek API Error:" text
\* and the loop prints that as the answer; either way the loop goes on to the
\* next input.
C7_FatalErrorsAreReported ==
  FatalEnded =>
    LET e == Last(trace).v
    IN /\ backend = "gemini" => ret = Raised(e)
       /\ backend = "deepseek" => ret = Returned(<<"DeepSeek API Error: ">> \o e)
       /\ main_pc \in {"wait", "input", "send", "exited"}
       /\ main_pc # "wait" =>
            shown = IF backend = "gemini"
                    THEN [style |-> "error", text |-> <<"Error: ">> \o e]
                    ELSE [style |-> "markdown", text |-> <<"DeepSeek API Error: ">> \o e]

\* After a fatal error the loop has read the next line and is about to send it.
C7_Witness == FatalEnded /\ main_pc = "send" /\ ~IsExit(line)

\* The positions in the registry of the names that occur in the lower-cased text.
NamedIn(text) == { i \in DOMAIN skills : Contains(Lower(text), skills[i].key) }

\* C16: a line that is no exit word is sent to send_message once, by the step
\* after the router; when no skill is active and the lower-cased line holds
\* registry names, the router activates the first of them in registry order,
\* and only it, and injects its context before the line is sent, so that in
\* the DeepSeek history the injected system message comes right before the
\* user message of that line.
C16_RouterOrdering ==
  [][ /\ (main_pc = "input" /\ main_pc' = "send") =>
           /\ ~IsExit(line')
           /\ (active_skill = NoSkill /\ NamedIn(line') # {}) =>
                \E i \in NamedIn(line') :
                  /\ \A j \in NamedIn(line') : i <= j
                  /\ active_skill' = skills[i].skill
                  /\ activations' = Append(activations, Last(activations'))
                  /\ op' = "inject_system_message"
                  /\ arg' = inject_msg(skills[i].key, get_full_context(skills[i].skill))
                  /\ backend = "deepseek" =>
                       history' = Append(history, Msg("system", arg'))
                  /\ backend = "gemini" => pc' = "Injecting"
           /\ (active_skill # NoSkill \/ NamedIn(line') = {}) =>
                UNCHANGED <<active_skill, activations, history, chat, op, arg, pc>>
      /\ (main_pc = "input" /\ main_pc' # "input") =>
           (main_pc' = "exited" <=> IsExit(line'))
      /\ (main_pc = "send" /\ pc = "Idle") =>
           /\ main_pc' = "wait"
           /\ op' = "send_message"
           /\ arg' = line
           /\ backend = "deepseek" => history' = Append(history, Msg("user", line))
           /\ (backend = "deepseek" /\ op = "inject_system_message") =>
                history'[Len(history') - 1] = Msg("system", arg)
      /\ main_pc = "wait" =>
           /\ main_pc' \in {"wait", "input"}
           /\ op' = op
           /\ arg' = arg
           /\ (backend = "deepseek" /\ history' # history) =>
                Last(history').role \in {"assistant", "tool"}
    ]_vars

\* A line that names beta before alpha activated alpha, and the injected
\* message sits right before the line in the DeepSeek history.
C16_Witness ==
  /\ backend = "deepseek"
  /\ main_pc = "wait"
  /\ line = <<"beta", "ALPHA">>
  /\ active_skill = Lookup(skills, "alpha")
  /\ base >= 2
  /\ history[base].role = "system"
  /\ Contains(history[base].content, "ALPHA")
  /\ history[base + 1] = Msg("user", line)

\* C19: no skill is active until a line holds a registry name; a step that
\* finds a skill active leaves it active, activates nothing and starts no
\* injection; the active skill is always one record of the registry or none.
C19_ActiveSkillSticky ==
  [][ /\ active_skill # NoSkill =>
           /\ active_skill' = active_skill
           /\ activations' = activations
           /\ pc' # "Injecting"
           /\ op' = "inject_system_message" => (op = "inject_system_message" /\ arg' = arg)
           /\ (backend = "deepseek" /\ history' # history) =>
                Last(history').role # "system"
      /\ (active_skill = NoSkill /\ active_skill' # NoSkill) =>
           /\ main_pc = "input"
           /\ \E i \in NamedIn(line') : active_skill' = skills[i].skill
      /\ (active_skill = NoSkill /\ main_pc = "input" /\ NamedIn(line') = {}) =>
           active_skill' = NoSkill
      /\ active_skill' \in {NoSkill} \cup { skills[i].skill : i \in DOMAIN skills }
    ]_vars

\* With alpha active, a line naming only beta has been sent.
C19_Witness ==
  /\ active_skill = Lookup(skills, "alpha")
  /\ line = <<"use", "BETA">>
  /\ main_pc = "wait"
  /\ Len(activations) = 1

(***************************************************************************)
(* main() under interrupts: a KeyboardInterrupt delivered while a backend  *)
(* method waits on the provider, on a sleep or on a script.                *)
(***************************************************************************)
\* The `except Exception` clauses of lines 322, 381, 212 and 236 let a
\* KeyboardInterrupt through; the bare `except:` of line 332 catches it.
Interrupt ==
  /\ pc \in {"AwaitingCompletion", "ToolExecuting", "AwaitingResponse",
             "RateLimited", "Injecting"}
  /\ trace' = Append(trace, [k |-> "interrupt", n |-> 0, v |-> KeyboardInterrupt])
  /\ ret' = IF pc = "Injecting" THEN Swallowed(KeyboardInterrupt)
            ELSE Raised(KeyboardInterrupt)
  /\ pc' = "Idle"
  /\ UNCHANGED <<backend, op, arg>>
  /\ UNCHANGED <<dsVars, gmVars, orchVars, mainVars, discVars>>

InterruptNext ==
  \/ MainNext
  \/ Interrupt

SpecInterrupt == MainInit /\ [][InterruptNext]_vars

\* C13: an interrupt that arrives while a backend method waits ends that
\* method with the KeyboardInterrupt, which main() reports as "Interrupted"
\* before reading the next line; the history before the interrupt is a prefix
\* of the history after it.
C13_InterruptReturnsToLoop ==
  [][ /\ (trace' # trace /\ trace' # <<>> /\ Last(trace').k = "interrupt") =>
           /\ pc' = "Idle"
           /\ ret' = Raised(KeyboardInterrupt)
           /\ IsPrefix(history, history')
      /\ (main_pc = "wait" /\ pc = "Idle" /\ ret = Raised(KeyboardInterrupt)) =>
           /\ main_pc' = "input"
           /\ shown' = [style |-> "warning", text |-> <<"Interrupted">>]
           /\ IsPrefix(history, history')
    ]_vars

\* C12: in the DeepSeek variant inject_system_message appends exactly one
\* system message and returns; in the Gemini variant it sends one text
\* prefixed "[SYSTEM UPDATE] ", once, without sleeping or retrying, and
\* returns None whether that send succeeded or failed; and the step after an
\* injection is the send of the user's line.
C12_InjectionPerBackend ==
  [][ /\ (backend = "deepseek" /\ op' = "inject_system_message") =>
           /\ history' = Append(history, Msg("system", arg'))
           /\ pc' = "Idle"
           /\ ret' = Returned(None)
      /\ (backend = "gemini" /\ pc = "Injecting") =>
           /\ pc' = "Idle"
           /\ ret' = Returned(None)
           /\ Len(trace') = 1
           /\ chat' = ChatWith(Append(chat.sent, <<"[SYSTEM UPDATE] ">> \o arg))
           /\ slept' = slept
           /\ attempt' = attempt
           /\ main_pc' = "send"
      /\ (op = "inject_system_message" /\ pc = "Idle") =>
           /\ main_pc = "send"
           /\ op' = "send_message"
           /\ arg' = line
    ]_vars

\* The send of an injection failed with an error that is no rate limit, the
\* method returned, and main() is about to send the user's line.
C12_Witness ==
  /\ backend = "gemini"
  /\ op = "inject_system_message"
  /\ pc = "Idle"
  /\ trace # <<>>
  /\ Last(trace).k = "error"
  /\ ~RateLimitSignal(Last(trace).v)
  /\ main_pc = "send"

(***************************************************************************)
(* Discovery: AgentSkill._load_base and SkillOrchestrator._discover_skills.*)
(* A SKILL.md is a sequence of lines; "---" is the delimiter line.         *)
(***************************************************************************)
Delim == "---"

\* Lines of a SKILL.md: the delimiter, key/value lines, a line YAML cannot
\* parse, a line of plain text, a blank line.
ManifestLines ==
  { Delim, "name: beta", "name: gamma", "description: demo", "[", "text", " " }

Manifests ==
  { [exists |-> FALSE, content |-> <<>>] } \cup
  { [exists |-> TRUE, content |-> c] : c \in SeqsUpTo(ManifestLines, MaxManifestLen) }

\* Subdirectories of the skills root.
DirNames == {"alpha", "beta"}

\* root.iterdir() yields the entries in an order of the file system's choosing.
Listings ==
  { l \in SeqsUpTo(DirNames, Cardinality(DirNames)) :
      \A i, j \in DOMAIN l : i # j => l[i] # l[j] }

IsPairLine(l) == l \in {"name: beta", "name: gamma", "description: demo"}

PairKey(l) == IF l = "description: demo" THEN "description" ELSE "name"

PairValue(l) ==
  CASE l = "name: beta"  -> "beta"
    [] l = "name: gamma" -> "gamma"
    [] OTHER             -> "demo"

\* str.strip(): blank lines at both ends go.
RECURSIVE LStrip(_)
LStrip(s) == IF s # <<>> /\ Head(s) = " " THEN LStrip(Tail(s)) ELSE s

RECURSIVE RStrip(_)
RStrip(s) ==
  IF s # <<>> /\ s[Len(s)] = " " THEN RStrip(SubSeq(s, 1, Len(s) - 1)) ELSE s

Strip(s) == RStrip(LStrip(s))

\* content.startswith("---")
StartsWithDelim(c) == c # <<>> /\ c[1] = Delim

\* content.split("---", n): at most n splits, at the first delimiters.
RECURSIVE Split(_, _)
Split(c, n) ==
  IF n = 0 \/ ~Contains(c, Delim) THEN <<c>>
  ELSE LET q == CHOOSE i \in DOMAIN c :
                  c[i] = Delim /\ \A j \in 1..(i - 1) : c[j] # Delim
       IN <<SubSeq(c, 1, q - 1)>> \o Split(SubSeq(c, q + 1, Len(c)), n - 1)

\* yaml.safe_load(frontmatter): [ok, value]; ok is FALSE where it raises YAMLError.
yaml_safe_load(fm) ==
  LET ls == SelectSeq(fm, LAMBDA l : l # " ")
      lastOf(k) == CHOOSE i \in DOMAIN ls :
                     /\ PairKey(ls[i]) = k
                     /\ \A j \in DOMAIN ls : PairKey(ls[j]) = k => j <= i
  IN IF Contains(ls, "[") THEN [ok |-> FALSE, value |-> PyOther("NoneType")]
     ELSE IF ls = <<>> THEN [ok |-> TRUE, value |-> PyOther("NoneType")]
     ELSE IF \A i \in DOMAIN ls : IsPairLine(ls[i])
     THEN [ok |-> TRUE,
           value |-> PyDict([k \in { PairKey(ls[i]) : i \in DOMAIN ls } |->
                               PairValue(ls[lastOf(k)])])]
     ELSE IF \A i \in DOMAIN ls : ~IsPairLine(ls[i])
     THEN [ok |-> TRUE, value |-> PyOther("str")]
     ELSE [ok |-> FALSE, value |-> PyOther("NoneType")]

\* AgentSkill(path) with this SKILL.md: [raised, exc, skill].
Built(skill) == [raised |-> FALSE, exc |-> "", skill |-> skill]

AgentSkill(path, manifest) ==
  IF ~manifest.exists
  THEN Built(AgentSkillObj(path, PyDict(Dict1("name", path)), DefaultBody))
  ELSE IF ~StartsWithDelim(manifest.content)
  THEN Built(AgentSkillObj(path, PyDict(EmptyDict), <<>>))
  ELSE LET parts == Split(manifest.content, 2)
       IN IF Len(parts) # 3
          THEN Built(AgentSkillObj(path, PyDict(Dict1("name", path)), manifest.content))
          ELSE LET fm == yaml_safe_load(parts[2])
               IN IF ~fm.ok
                  THEN [raised |-> TRUE, exc |-> "YAMLError", skill |-> NoSkill]
                  ELSE Built(AgentSkillObj(path, fm.value, Strip(parts[3])))

\* DictSet keeping the record a key already has.
DictSetKeepFirst(reg, k, skill) ==
  IF k \in Keys(reg) THEN reg ELSE Append(reg, [key |-> k, skill |-> skill])

\* self.skills[key] = skill: a key that is there keeps its place.
DictSet(reg, k, skill) ==
  IF k \in Keys(reg)
  THEN [i \in DOMAIN reg |-> IF reg[i].key = k THEN [key |-> k, skill |-> skill]
                             ELSE reg[i]]
  ELSE Append(reg, [key |-> k, skill |-> skill])

\* The shape of a SKILL.md, as the specification tells them apart.
ManifestShape(manifest) ==
  IF ~manifest.exists THEN "absent"
  ELSE IF ~StartsWithDelim(manifest.content) THEN "nodelim"
  ELSE IF Len(Split(manifest.content, 2)) # 3 THEN "onedelim"
  ELSE LET fm == yaml_safe_load(Split(manifest.content, 2)[2])
       IN IF ~fm.ok THEN "badyaml"
          ELSE IF fm.value.t # "dict" THEN "nonmap"
          ELSE "ok"

InitDiscovering ==
  /\ todo \in Listings
  /\ d_pc = IF todo = <<>> THEN "done" ELSE "discovering"
  /\ loaded = <<>>
  /\ d_exc = ""
  /\ skills = <<>>
  /\ active_skill = NoSkill
  /\ activations = <<>>

DiscoverInit ==
  /\ InitBackend
  /\ InitMainIdle
  /\ InitDiscovering

\* Lines 120-123: one turn of `for p in self.root.iterdir()`.
Visit ==
  /\ d_pc = "discovering"
  /\ todo # <<>>
  /\ todo' = Tail(todo)
  /\ \E is_dir \in BOOLEAN, manifest \in Manifests :
       LET p == Head(todo)
           built == AgentSkill(p, manifest)
       IN IF ~is_dir
          THEN /\ d_pc' = IF Tail(todo) = <<>> THEN "done" ELSE "discovering"
               /\ UNCHANGED <<skills, loaded, d_exc>>
          ELSE IF built.raised
          THEN /\ d_pc' = "crashed"
               /\ d_exc' = built.exc
               /\ UNCHANGED <<skills, loaded>>
          ELSE IF ~HasGet(built.skill)
          THEN /\ d_pc' = "crashed"
               /\ d_exc' = "AttributeError"
               /\ UNCHANGED <<skills, loaded>>
          ELSE /\ skills' = DictSet(skills, SkillName(built.skill), built.skill)
               /\ loaded' = Append(loaded, [path |-> p,
                                            shape |-> ManifestShape(manifest),
                                            skill |-> built.skill])
               /\ d_pc' = IF Tail(todo) = <<>> THEN "done" ELSE "discovering"
               /\ UNCHANGED d_exc
  /\ UNCHANGED <<backend, active_skill, activations, mainVars>>
  /\ UNCHANGED <<dsVars, gmVars, callVars>>

DiscoverNext == Visit

SpecDiscover == DiscoverInit /\ [][DiscoverNext]_vars

(***************************************************************************)
(* Properties of discovery.                                                *)
(***************************************************************************)
\* C8: whatever the SKILL.md of a directory looks like, discovery does not
\* stop on it, and every directory whose name no other directory took is in
\* the registry with the record built for it.
C8_DiscoveryNeverFailsHard ==
  /\ d_pc # "crashed"
  /\ \A i \in DOMAIN loaded :
       (\A j \in DOMAIN loaded :
          SkillName(loaded[j].skill) = SkillName(loaded[i].skill) => j = i)
       => /\ SkillName(loaded[i].skill) \in Keys(skills)
          /\ Lookup(skills, SkillName(loaded[i].skill)) = loaded[i].skill

\* C9: the record of a directory whose SKILL.md is absent or fails to parse
\* has the directory's name and the default instruction body.
C9_FallbackRecord ==
  \A i \in DOMAIN loaded :
    loaded[i].shape \in {"absent", "nodelim", "onedelim", "badyaml", "nonmap"} =>
      /\ SkillName(loaded[i].skill) = loaded[i].path
      /\ loaded[i].skill.instruction_body = DefaultBody

\* C17 as stated: after discovery every key maps to a record of that name, and
\* every directory discovery built a record for has that record in the
\* registry, two directories of the same name included.
C17_EveryDirectoryAddressable ==
  d_pc = "done" =>
    /\ \A k \in Keys(skills) : SkillName(Lookup(skills, k)) = k
    /\ \A i \in DOMAIN loaded :
         \E k \in Keys(skills) : Lookup(skills, k) = loaded[i].skill

\* C17, amended: the keys are distinct, every key maps to a record of that
\* name, and the record under a name is the one of the last directory visited
\* that yields the name: a directory is addressable unless a later one yields
\* the same name.
C17_LastDirectoryOfANameWins ==
  /\ \A i, j \in DOMAIN skills : skills[i].key = skills[j].key => i = j
  /\ \A k \in Keys(skills) : SkillName(Lookup(skills, k)) = k
  /\ \A i \in DOMAIN loaded :
       LET k == SkillName(loaded[i].skill)
       IN /\ k \in Keys(skills)
          /\ (\A j \in DOMAIN loaded :
                (j > i => SkillName(loaded[j].skill) # k))
             <=> Lookup(skills, k) = loaded[i].skill
  /\ \A k \in Keys(skills) :
       \E i \in DOMAIN loaded : loaded[i].skill = Lookup(skills, k)

\* Discovery ended after two directories that yield the same name.
C17_Witness ==
  /\ d_pc = "done"
  /\ Len(loaded) = 2
  /\ SkillName(loaded[1].skill) = SkillName(loaded[2].skill)
  /\ Len(skills) = 1
  /\ skills[1].skill = loaded[2].skill

(***************************************************************************)
(* The orchestrator on its own: discovery, then any calls of activate.     *)
(***************************************************************************)
\* Names a caller passes to activate.
ActivateNames == {"alpha", "delta"}

CallActivate ==
  /\ d_pc = "done"
  /\ \E skill_name \in ActivateNames : activate(skill_name)
  /\ UNCHANGED <<backend, mainVars, discVars>>
  /\ UNCHANGED <<dsVars, gmVars, callVars>>

OrchNext ==
  \/ Visit
  \/ CallActivate

SpecOrch == DiscoverInit /\ [][OrchNext]_vars

(***************************************************************************)
(* Properties of activate.                                                 *)
(***************************************************************************)
\* C11: a call of activate leaves the registry as it was; on a name the
\* registry does not hold it returns the empty string and leaves the active
\* skill as it was; on a name it holds it makes that record the active one,
\* and called again with the same name right after, it returns the same
\* context and changes nothing.
C11_ActivateIdempotentAndSafe ==
  [][ activations' # activations =>
        LET a == Last(activations')
            known == a.name \in Keys(skills)
        IN /\ skills' = skills
           /\ ~known => (a.result = <<>> /\ active_skill' = active_skill)
           /\ known => (a.result # <<>> /\ active_skill' = Lookup(skills, a.name))
           /\ (known /\ activations # <<>> /\ Last(activations).name = a.name) =>
                (a.result = Last(activations).result /\ active_skill' = active_skill)
    ]_vars

\* A registry of two skills in which the same known name was activated twice
\* in a row.
C11_Witness ==
  /\ Len(skills) = 2
  /\ Len(activations) = 2
  /\ activations[1].name \in Keys(skills)
  /\ activations[2].name = activations[1].name
  /\ activations[2].result = activations[1].result
  /\ active_skill = Lookup(skills, activations[1].name)

====
